---- MODULE Spec2Model ----
(***************************************************************************)
(* Randomized-Backgrounds: the Randomized_Frame_Sampler class              *)
(* (utils/frame_samplers.py) and the script that drives it                 *)
(* (random_backgrounds.py).                                                *)
(*                                                                         *)
(* Real numbers are exact fractions.  A duration bound is a numerator over *)
(* DurDen, a draw of np.random.rand() is a numerator over RandDen (the     *)
(* draw lies in [0, 1), so the numerator is in 0..RandDen-1), and a        *)
(* normalized sample position of a sampler with n samples is a numerator   *)
(* over PosDen(n).  Floating-point rounding of these products is not       *)
(* modelled.                                                               *)
(*                                                                         *)
(* An image is a sequence of rows, a row a sequence of pixels 0..255       *)
(* (one channel).  Python's 0-based index i is position i + 1 here.        *)
(***************************************************************************)
EXTENDS Integers, Sequences, FiniteSets, TLC

VARIABLES
    samplers,               \* index -> Randomized_Frame_Sampler instance (bg_samplers_list)
    ret,                    \* the last method call made on a sampler and what it returned
    argv,                   \* the script's ARG_* values
    video,                  \* the opened video: width, height, total_frames
    pc,                     \* the script's position
    sampler_i,              \* index of each_bg_sampler in the capture loop
    frame_indices,          \* the index sequence the inner loop iterates
    sample_k,               \* how many entries of frame_indices the inner loop has taken
    cropped_samples_list,
    new_median_bg,
    median_bg_frames,
    vread_open,             \* FALSE once vread.release() has run
    cancelled,              \* the except KeyboardInterrupt branch has run
    reads,                  \* log of vread.set/vread.read calls
    calls,                  \* log of the disable_* calls the script made
    save_confirmed,
    written,                \* log of cv2.imwrite calls
    error                   \* the uncaught exception that ended the script, or "none"

vars == <<samplers, ret, argv, video, pc, sampler_i, frame_indices, sample_k,
          cropped_samples_list, new_median_bg, median_bg_frames, vread_open,
          cancelled, reads, calls, save_confirmed, written, error>>

script_vars == <<argv, video, pc, sampler_i, frame_indices, sample_k,
                 cropped_samples_list, new_median_bg, median_bg_frames, vread_open,
                 cancelled, reads, calls, save_confirmed, written, error>>

-----------------------------------------------------------------------------
(* Bounds of the model *)

DurDen == 2          \* duration bounds are k / DurDen, k in 0..DurDen
RandDen == 2         \* np.random.rand() draws are k / RandDen, k in 0..RandDen-1
MaxSamples == 3      \* num_samples of a sampler under SamplerSpec is in 1..MaxSamples
MaxFrames == 4       \* total_video_frames passed to get_frame_indices is in 1..MaxFrames
MaxCount == 2        \* ARG_NUM_OUTPUT is in 0..MaxCount
MaxStack == 4        \* cropped frames reduced by one median under MedianSpec

\* (video_width, video_height) of the samplers built under SamplerSpec
VideoSizes == {<<2, 1>>, <<3, 2>>}

Max(a, b) == IF a >= b THEN a ELSE b
Min(a, b) == IF a <= b THEN a ELSE b

-----------------------------------------------------------------------------
(* numpy and Python primitives *)

\* np.random.randint(low, high): an integer of the half-open range [low, high)
randint_closed(low, high) == low .. high
randint(low, high) == low .. (high - 1)

\* np.random.rand(): the numerator of a draw of [0, 1)
rand == 0 .. (RandDen - 1)

\* int(x / 2) for an integer x >= 0
int_half_up(x) == (x + 1) \div 2
int_half(x) == x \div 2

\* sorted(pair)
sorted(pair) == IF pair[1] <= pair[2] THEN pair ELSE <<pair[2], pair[1]>>

\* np.round of the fraction a / b (a >= 0, b > 0): to the nearest integer, a tie
\* going to the even neighbour
np_round_floor(a, b) == a \div b
np_round(a, b) ==
    LET q == a \div b
        r == a % b
    IN  IF 2 * r < b THEN q
        ELSE IF 2 * r > b THEN q + 1
        ELSE IF q % 2 = 0 THEN q ELSE q + 1

\* np.int32(v): the cast keeps a value of -2^31 .. 2^31 - 1; with total_video_frames
\* bounded by MaxFrames every index lies in that range
np_int32(v) == v

\* np.uint8(v) of an integer-valued v
np_uint8(v) == v % 256

\* np.uint8(nan): the cast of NaN to an integer type is undefined in C; the
\* builds differ in the byte they give
uint8_of_nan == {0, 255}

\* the denominator of the normalized sample positions of a sampler with n samples
PosDen(n) == DurDen * RandDen * RandDen * Max(n - 1, 1)

\* np.linspace(start, stop, num) of two fractions over DurDen * RandDen * RandDen,
\* as numerators over PosDen(num); num = 1 gives [start]
linspace(start, stop, num) ==
    [i \in 1..num |-> start * Max(num - 1, 1) + (i - 1) * (stop - start)]

-----------------------------------------------------------------------------
(* Randomized_Frame_Sampler *)

\* _get_randomized_crop_coords, with the two np.random.randint draws given
crop_coords(self, crop_x1, crop_y1) ==
    LET output_width == self.video_width - self.max_x_shift
        output_height == self.video_height - self.max_y_shift
        crop_x2 == crop_x1 + output_width
        crop_y2 == crop_y1 + output_height
    IN  <<crop_y1, crop_y2, crop_x1, crop_x2>>

\* _get_randomized_norm_sampling_indices, with the two np.random.rand draws given
norm_sampling_indices(self, r1, r2) ==
    LET norm_sample_duration ==
            self.min_duration * RandDen + (self.max_duration - self.min_duration) * r1
        earliest_norm_sample == (DurDen * RandDen - norm_sample_duration) * r2
        latest_norm_sample == earliest_norm_sample + norm_sample_duration * RandDen
    IN  linspace(earliest_norm_sample, latest_norm_sample, self.num_samples)

\* __init__: a = <<video_wh, max_shift_xy, min_max_sampling_duration, num_samples>>,
\* d = <<crop_x1, crop_y1, r1, r2>> the values its four random draws give
Randomized_Frame_Sampler(a, d) ==
    LET stored == [video_width |-> a[1][1], video_height |-> a[1][2],
                   max_x_shift |-> a[2][1], max_y_shift |-> a[2][2],
                   min_duration |-> sorted(a[3])[1],
                   max_duration |-> sorted(a[3])[2],
                   num_samples |-> a[4]]
    IN  [video_width |-> stored.video_width, video_height |-> stored.video_height,
         max_x_shift |-> stored.max_x_shift, max_y_shift |-> stored.max_y_shift,
         min_duration |-> stored.min_duration, max_duration |-> stored.max_duration,
         num_samples |-> stored.num_samples,
         crop_y1y2x1x2 |-> crop_coords(stored, d[1], d[2]),
         norm_sample_idxs |-> norm_sampling_indices(stored, d[3], d[4])]

\* the values the four random draws of __init__ can give
init_draws(a) ==
    randint(0, a[2][1] + 1) \X randint(0, a[2][2] + 1) \X rand \X rand

\* the sampler disable_random_shift leaves
shift_disabled_and_retimed(self) ==
    LET crop_x1 == int_half(self.max_x_shift)
        crop_y1 == int_half(self.max_y_shift)
    IN  [self EXCEPT !.crop_y1y2x1x2 = crop_coords(self, crop_x1, crop_y1),
                     !.min_duration = DurDen, !.max_duration = DurDen,
                     !.norm_sample_idxs =
                         linspace(0, DurDen * RandDen * RandDen, self.num_samples)]
shift_disabled(self) ==
    LET output_width == self.video_width - self.max_x_shift
        output_height == self.video_height - self.max_y_shift
        crop_x1 == int_half(self.max_x_shift)
        crop_y1 == int_half(self.max_y_shift)
        crop_x2 == crop_x1 + output_width
        crop_y2 == crop_y1 + output_height
    IN  [self EXCEPT !.crop_y1y2x1x2 = <<crop_y1, crop_y2, crop_x1, crop_x2>>]

\* the sampler disable_random_sample_timing leaves, with its two draws given
timing_disabled_keeping_bounds(self, r1, r2) ==
    [self EXCEPT !.norm_sample_idxs = norm_sampling_indices(self, r1, r2)]
timing_disabled(self, r1, r2) ==
    LET bounds == [self EXCEPT !.min_duration = DurDen, !.max_duration = DurDen]
    IN  [bounds EXCEPT !.norm_sample_idxs = norm_sampling_indices(bounds, r1, r2)]

\* crop: frame[crop_y1:crop_y2, crop_x1:crop_x2], for bounds >= 0
crop(self, frame) ==
    LET crop_y1 == self.crop_y1y2x1x2[1]
        crop_y2 == Min(self.crop_y1y2x1x2[2], Len(frame))
        crop_x1 == self.crop_y1y2x1x2[3]
        crop_x2 == self.crop_y1y2x1x2[4]
    IN  [y \in 1..Max(crop_y2 - crop_y1, 0) |->
            LET row == frame[crop_y1 + y]
            IN  [x \in 1..Max(Min(crop_x2, Len(row)) - crop_x1, 0) |-> row[crop_x1 + x]]]

get_xy_shift(self) ==
    LET centered_x == int_half(self.max_x_shift)
        centered_y == int_half(self.max_y_shift)
        crop_y1 == self.crop_y1y2x1x2[1]
        crop_x1 == self.crop_y1y2x1x2[3]
    IN  <<crop_x1 - centered_x, crop_y1 - centered_y>>

get_frame_indices(self, total_video_frames) ==
    [i \in 1..Len(self.norm_sample_idxs) |->
        np_int32(np_round((total_video_frames - 1) * self.norm_sample_idxs[i],
                          PosDen(self.num_samples)))]

-----------------------------------------------------------------------------
(* The class under any sequence of method calls: SamplerSpec *)

\* the record of a method call
Call(op, i, arg, val) == [op |-> op, self |-> i, arg |-> arg, val |-> val]
NoCall == Call("none", 0, <<>>, <<>>)

\* a full frame of the sampler's video size whose pixel at (x, y) is y * width + x
coordinate_frame(self) ==
    [y \in 1..self.video_height |->
        [x \in 1..self.video_width |-> ((y - 1) * self.video_width + (x - 1)) % 256]]

\* constructor arguments with 0 <= max shift <= video size, duration bounds of
\* [0, 1] in either order, num_samples >= 1
ArgsFor(wh) ==
    {<<wh, <<mx, my>>, <<d1, d2>>, n>> :
        mx \in 0..wh[1], my \in 0..wh[2],
        d1 \in 0..DurDen, d2 \in 0..DurDen, n \in 1..MaxSamples}

SamplerArgs == UNION {ArgsFor(wh) : wh \in VideoSizes}

\* the arguments of the two samplers built side by side
PairArgs == {<<<<3, 2>>, <<2, 1>>, <<DurDen, 1>>, n>> : n \in 2..3}

\* the script's variables while only the class is exercised
ScriptIdle ==
    /\ argv = <<>>
    /\ video = <<>>
    /\ pc = "api"
    /\ sampler_i = 0
    /\ frame_indices = <<>>
    /\ sample_k = 0
    /\ cropped_samples_list = <<>>
    /\ new_median_bg = <<>>
    /\ median_bg_frames = <<>>
    /\ vread_open = FALSE
    /\ cancelled = FALSE
    /\ reads = <<>>
    /\ calls = <<>>
    /\ save_confirmed = FALSE
    /\ written = <<>>
    /\ error = "none"

\* one sampler, constructed with any valid arguments and any draws
InitOne ==
    \E a \in SamplerArgs :
        \E d \in init_draws(a) :
            samplers = [i \in 0..0 |-> Randomized_Frame_Sampler(a, d)]

\* two samplers constructed with the same arguments, each with its own draws
InitPair ==
    \E a \in PairArgs :
        \E d0 \in init_draws(a), d1 \in init_draws(a) :
            samplers = [i \in 0..1 |-> Randomized_Frame_Sampler(a, IF i = 0 THEN d0 ELSE d1)]

SamplerInit ==
    /\ InitOne \/ InitPair
    /\ ret = NoCall
    /\ ScriptIdle

disable_random_shift(i) ==
    /\ pc = "api"
    /\ samplers' = [samplers EXCEPT ![i] = shift_disabled(@)]
    /\ ret' = Call("disable_random_shift", i, <<>>, <<>>)
    /\ UNCHANGED script_vars

disable_random_sample_timing(i) ==
    /\ pc = "api"
    /\ \E r1 \in rand, r2 \in rand :
          samplers' = [samplers EXCEPT ![i] = timing_disabled(@, r1, r2)]
    /\ ret' = Call("disable_random_sample_timing", i, <<>>, <<>>)
    /\ UNCHANGED script_vars

call_crop(i) ==
    /\ pc = "api"
    /\ ret' = Call("crop", i, coordinate_frame(samplers[i]),
                   crop(samplers[i], coordinate_frame(samplers[i])))
    /\ UNCHANGED <<samplers, script_vars>>

call_get_xy_shift(i) ==
    /\ pc = "api"
    /\ ret' = Call("get_xy_shift", i, <<>>, get_xy_shift(samplers[i]))
    /\ UNCHANGED <<samplers, script_vars>>

call_get_frame_indices(i) ==
    /\ pc = "api"
    /\ \E total_video_frames \in 1..MaxFrames :
          ret' = Call("get_frame_indices", i, <<total_video_frames>>,
                      get_frame_indices(samplers[i], total_video_frames))
    /\ UNCHANGED <<samplers, script_vars>>

SamplerNext ==
    \/ \E i \in DOMAIN samplers : disable_random_shift(i)
    \/ \E i \in DOMAIN samplers : disable_random_sample_timing(i)
    \/ \E i \in DOMAIN samplers : call_crop(i)
    \/ \E i \in DOMAIN samplers : call_get_xy_shift(i)
    \/ \E i \in DOMAIN samplers : call_get_frame_indices(i)

SamplerSpec == SamplerInit /\ [][SamplerNext]_vars

-----------------------------------------------------------------------------
(* Properties of the class, checked under SamplerSpec *)

Abs(x) == IF x >= 0 THEN x ELSE 0 - x

\* C1: in every state reached by construction and any sequence of disable calls, the
\* crop rectangle (y1, y2, x1, x2) of every sampler has width video_width - max_x_shift
\* and height video_height - max_y_shift, 0 <= x1 <= max_x_shift, 0 <= y1 <= max_y_shift,
\* and so x2 <= video_width and y2 <= video_height; the crop of a full frame has that size.
C1_CropWithinFrame ==
    \A i \in DOMAIN samplers :
        LET s == samplers[i]
            y1 == s.crop_y1y2x1x2[1]
            y2 == s.crop_y1y2x1x2[2]
            x1 == s.crop_y1y2x1x2[3]
            x2 == s.crop_y1y2x1x2[4]
        IN  /\ x2 - x1 = s.video_width - s.max_x_shift
            /\ y2 - y1 = s.video_height - s.max_y_shift
            /\ 0 <= x1 /\ x1 <= s.max_x_shift
            /\ 0 <= y1 /\ y1 <= s.max_y_shift
            /\ x2 <= s.video_width
            /\ y2 <= s.video_height
            /\ (ret.op = "crop" /\ ret.self = i) =>
                  /\ Len(ret.val) = s.video_height - s.max_y_shift
                  /\ \A y \in 1..Len(ret.val) :
                        Len(ret.val[y]) = s.video_width - s.max_x_shift

\* a sampler that drew the largest offset, its crop touching the right edge of the
\* frame, after a disable call on it
C1_Witness ==
    /\ ret.op = "disable_random_sample_timing"
    /\ LET s == samplers[ret.self]
       IN  /\ s.max_x_shift = 2
           /\ s.crop_y1y2x1x2[3] = 2
           /\ s.crop_y1y2x1x2[4] = s.video_width

\* C2: a call of disable_random_shift leaves the crop rectangle
\* (floor(my/2), floor(my/2) + height - my, floor(mx/2), floor(mx/2) + width - mx),
\* get_xy_shift then returns (0, 0), and a second call changes nothing.
C2_DisableShiftIdempotent ==
    [][ /\ ret'.op = "disable_random_shift" =>
            LET s == samplers'[ret'.self]
                cy == s.max_y_shift \div 2
                cx == s.max_x_shift \div 2
            IN  /\ s.crop_y1y2x1x2 =
                      <<cy, cy + s.video_height - s.max_y_shift,
                        cx, cx + s.video_width - s.max_x_shift>>
                /\ get_xy_shift(s) = <<0, 0>>
                /\ (ret.op = "disable_random_shift" /\ ret.self = ret'.self)
                      => samplers' = samplers
        /\ (ret.op = "disable_random_shift" /\ ret'.op = "get_xy_shift"
                /\ ret'.self = ret.self)
              => ret'.val = <<0, 0>>
      ]_vars

\* get_xy_shift has returned (0, 0) for a centered sampler whose max shifts are 3 and 1
C2_Witness ==
    /\ ret.op = "get_xy_shift"
    /\ ret.val = <<0, 0>>
    /\ LET s == samplers[ret.self]
       IN  /\ s.max_x_shift = 3
           /\ s.max_y_shift = 1
           /\ s.crop_y1y2x1x2 = <<0, 1, 1, 1>>

\* C3: a call of disable_random_sample_timing, whatever it draws, leaves num_samples
\* positions, position i being i / (num_samples - 1) when num_samples >= 2 (first 0,
\* last 1), both duration bounds 1.0, and a second call changes nothing.
C3_DisableTimingIdempotent ==
    [][ ret'.op = "disable_random_sample_timing" =>
            LET s == samplers'[ret'.self]
                n == s.num_samples
            IN  /\ Len(s.norm_sample_idxs) = n
                /\ s.min_duration = DurDen
                /\ s.max_duration = DurDen
                /\ n >= 2 =>
                      /\ \A k \in 1..n :
                            s.norm_sample_idxs[k] * (n - 1) = (k - 1) * PosDen(n)
                      /\ s.norm_sample_idxs[1] = 0
                      /\ s.norm_sample_idxs[n] = PosDen(n)
                /\ (ret.op = "disable_random_sample_timing" /\ ret.self = ret'.self)
                      => samplers' = samplers
      ]_vars

\* disable_random_sample_timing has been called on a sampler of three samples that was
\* built with duration bounds below 1: its positions are 0, 1/2, 1
C3_Witness ==
    /\ ret.op = "disable_random_sample_timing"
    /\ LET s == samplers[ret.self]
       IN  /\ s.num_samples = 3
           /\ s.norm_sample_idxs = <<0, PosDen(3) \div 2, PosDen(3)>>
           /\ \E j \in DOMAIN samplers : samplers[j].min_duration < DurDen

\* C4: get_frame_indices(T), T >= 1, returns num_samples integers in the order of the
\* sample positions, non-decreasing, each within 0..T-1 and each the integer nearest to
\* p * (T - 1) for its position p.
C4_FrameIndices ==
    ret.op = "get_frame_indices" =>
        LET s == samplers[ret.self]
            T == ret.arg[1]
            idx == ret.val
            den == PosDen(s.num_samples)
        IN  /\ Len(idx) = s.num_samples
            /\ \A k \in 1..Len(idx) :
                  /\ 0 <= idx[k]
                  /\ idx[k] <= T - 1
                  /\ 2 * Abs(idx[k] * den - (T - 1) * s.norm_sample_idxs[k]) <= den
            /\ \A k \in 1..(Len(idx) - 1) : idx[k] <= idx[k + 1]
            /\ \A k \in 1..Len(s.norm_sample_idxs) :
                  /\ 0 <= s.norm_sample_idxs[k]
                  /\ s.norm_sample_idxs[k] <= den

\* positions 0, 1/2, 1 over a video of three frames give the indices 0, 1, 2
C4_Witness ==
    /\ ret.op = "get_frame_indices"
    /\ ret.arg = <<3>>
    /\ samplers[ret.self].norm_sample_idxs = <<0, PosDen(3) \div 2, PosDen(3)>>
    /\ ret.val = <<0, 1, 2>>

\* C10: crop, get_xy_shift and get_frame_indices change no field and return the same
\* result when repeated; disable_random_shift changes nothing but the crop rectangle;
\* disable_random_sample_timing leaves the crop rectangle, num_samples, the video size
\* and the max shifts; no call on one sampler changes another sampler.
C10_FrameEffects ==
    [][ /\ DOMAIN samplers' = DOMAIN samplers
        /\ \A i \in DOMAIN samplers :
              /\ i # ret'.self => samplers'[i] = samplers[i]
              /\ ret'.op \in {"crop", "get_xy_shift", "get_frame_indices"}
                    => samplers'[i] = samplers[i]
              /\ ret'.op = "disable_random_shift"
                    => samplers'[i] =
                          [samplers[i] EXCEPT !.crop_y1y2x1x2 = samplers'[i].crop_y1y2x1x2]
              /\ ret'.op = "disable_random_sample_timing"
                    => /\ samplers'[i].crop_y1y2x1x2 = samplers[i].crop_y1y2x1x2
                       /\ samplers'[i].num_samples = samplers[i].num_samples
                       /\ samplers'[i].video_width = samplers[i].video_width
                       /\ samplers'[i].video_height = samplers[i].video_height
                       /\ samplers'[i].max_x_shift = samplers[i].max_x_shift
                       /\ samplers'[i].max_y_shift = samplers[i].max_y_shift
        /\ (/\ ret'.op \in {"crop", "get_xy_shift", "get_frame_indices"}
            /\ ret.op = ret'.op
            /\ ret.self = ret'.self
            /\ ret.arg = ret'.arg)
              => ret'.val = ret.val
      ]_vars

\* of two samplers that drew different crops and timings, the second has had its
\* shift disabled while the first still holds an off-centre crop and uneven timing
C10_Witness ==
    /\ DOMAIN samplers = 0..1
    /\ ret.op = "disable_random_shift"
    /\ ret.self = 1
    /\ get_xy_shift(samplers[0]) # <<0, 0>>
    /\ samplers[0].norm_sample_idxs # samplers[1].norm_sample_idxs
    /\ samplers[1].norm_sample_idxs[1] # 0

-----------------------------------------------------------------------------
(* The median reduction of line 127 *)

RECURSIVE insert_sorted(_, _)
insert_sorted(v, seq) ==
    IF seq = <<>> THEN <<v>>
    ELSE IF v <= Head(seq) THEN <<v>> \o seq
    ELSE <<Head(seq)>> \o insert_sorted(v, Tail(seq))

RECURSIVE sort(_)
sort(seq) == IF seq = <<>> THEN <<>> ELSE insert_sorted(Head(seq), sort(Tail(seq)))

\* np.median of a non-empty list of integers, as a numerator over 2: the middle value
\* of the sorted list, or the mean of the two middle values computed in float64
np_median_low(values) ==
    LET sz == Len(values)
        part == sort(values)
    IN  2 * part[(sz + 1) \div 2]
np_median(values) ==
    LET sz == Len(values)
        part == sort(values)
    IN  IF sz % 2 = 1 THEN 2 * part[(sz + 1) \div 2]
        ELSE part[sz \div 2] + part[sz \div 2 + 1]

\* np.uint8(np.round(np.median(cropped_samples_list, axis = 0))) of a non-empty list of
\* equally-shaped frames
median_image(list) ==
    [y \in 1..Len(list[1]) |->
        [x \in 1..Len(list[1][y]) |->
            np_uint8(np_round(np_median([k \in 1..Len(list) |-> list[k][y][x]]), 2))]]

\* What line 127 can give.  Of an empty list np.median is NaN (a 0-d value, with a
\* warning, no exception), np.round keeps it, and np.uint8 casts it.
median_outcomes(list) ==
    IF list = <<>>
    THEN {[ndim |-> 0, px |-> <<<<v>>>>] : v \in uint8_of_nan}
    ELSE {[ndim |-> 2, px |-> median_image(list)]}

-----------------------------------------------------------------------------
(* The script random_backgrounds.py: Spec *)

\* the parsed arguments: --num_output, --num_samples, the max shifts and the two
\* sampling durations (numerators over DurDen)
ScriptArgs ==
    {[ARG_NUM_OUTPUT |-> c, ARG_NUM_SAMPLES |-> n,
      ARG_MAX_X_SHIFT |-> 1, ARG_MAX_Y_SHIFT |-> 0,
      ARG_MIN_DURATION |-> 1, ARG_MAX_DURATION |-> 1] :
        c \in 0..MaxCount, n \in {1, 3}}

\* what cv2.VideoCapture reports of the video
Videos == {[video_width |-> 3, video_height |-> 1, total_frames |-> 5]}

\* the frame vread.read() decodes at frame index idx
decoded_frame(idx) ==
    [y \in 1..video.video_height |->
        [x \in 1..video.video_width |-> (37 * idx * idx + 7 * (x - 1) + 3 * (y - 1)) % 256]]

\* sampler_args of line 93
sampler_args ==
    <<<<video.video_width, video.video_height>>,
      <<argv.ARG_MAX_X_SHIFT, argv.ARG_MAX_Y_SHIFT>>,
      <<argv.ARG_MIN_DURATION, argv.ARG_MAX_DURATION>>,
      argv.ARG_NUM_SAMPLES>>

\* the index of the sampler lines 97-98 turn into the reference
reference_last == argv.ARG_NUM_OUTPUT - 1
reference == 0

\* cropped_samples_list after one pass of the inner loop's body
samples_no_skip(list, rec_frame, sampler, frame) == Append(list, crop(sampler, frame))
samples_after_read(list, rec_frame, sampler, frame) ==
    IF ~rec_frame THEN list ELSE Append(list, crop(sampler, frame))

Init ==
    /\ argv \in ScriptArgs
    /\ video \in Videos
    /\ pc = "build"
    /\ samplers = <<>>
    /\ ret = NoCall
    /\ sampler_i = 0
    /\ frame_indices = <<>>
    /\ sample_k = 0
    /\ cropped_samples_list = <<>>
    /\ new_median_bg = <<>>
    /\ median_bg_frames = <<>>
    /\ vread_open = TRUE
    /\ cancelled = FALSE
    /\ reads = <<>>
    /\ calls = <<>>
    /\ save_confirmed = FALSE
    /\ written = <<>>
    /\ error = "none"

\* line 94: range(n) of n <= 0 is empty
BuildSamplers ==
    /\ pc = "build"
    /\ \E d \in [0..(argv.ARG_NUM_OUTPUT - 1) -> init_draws(sampler_args)] :
          samplers' = [i \in 0..(argv.ARG_NUM_OUTPUT - 1) |->
                          Randomized_Frame_Sampler(sampler_args, d[i])]
    /\ pc' = "disable_shift"
    /\ UNCHANGED <<ret, argv, video, sampler_i, frame_indices, sample_k,
                   cropped_samples_list, new_median_bg, median_bg_frames, vread_open,
                   cancelled, reads, calls, save_confirmed, written, error>>

\* line 97; indexing an empty list raises IndexError, which nothing catches
DisableShift ==
    /\ pc = "disable_shift"
    /\ IF reference \in DOMAIN samplers
       THEN /\ samplers' = [samplers EXCEPT ![reference] = shift_disabled(@)]
            /\ calls' = Append(calls, [op |-> "disable_random_shift", self |-> reference,
                                       reads |-> Len(reads)])
            /\ pc' = "disable_timing"
            /\ error' = error
       ELSE /\ pc' = "crashed"
            /\ error' = "IndexError line 97"
            /\ UNCHANGED <<samplers, calls>>
    /\ UNCHANGED <<ret, argv, video, sampler_i, frame_indices, sample_k,
                   cropped_samples_list, new_median_bg, median_bg_frames, vread_open,
                   cancelled, reads, save_confirmed, written>>

\* line 98
DisableTiming ==
    /\ pc = "disable_timing"
    /\ \E r1 \in rand, r2 \in rand :
          samplers' = [samplers EXCEPT ![reference] = timing_disabled(@, r1, r2)]
    /\ calls' = Append(calls, [op |-> "disable_random_sample_timing", self |-> reference,
                               reads |-> Len(reads)])
    /\ pc' = "for_sampler"
    /\ UNCHANGED <<ret, argv, video, sampler_i, frame_indices, sample_k,
                   cropped_samples_list, new_median_bg, median_bg_frames, vread_open,
                   cancelled, reads, save_confirmed, written, error>>

\* lines 110-113: the next sampler of the list, or the end of the outer loop
ForSampler ==
    /\ pc = "for_sampler"
    /\ IF sampler_i \in DOMAIN samplers
       THEN /\ cropped_samples_list' = <<>>
            /\ frame_indices' = get_frame_indices(samplers[sampler_i], video.total_frames)
            /\ sample_k' = 0
            /\ pc' = "read"
       ELSE /\ pc' = "release"
            /\ UNCHANGED <<cropped_samples_list, frame_indices, sample_k>>
    /\ UNCHANGED <<samplers, ret, argv, video, sampler_i, new_median_bg,
                   median_bg_frames, vread_open, cancelled, reads, calls,
                   save_confirmed, written, error>>

\* lines 113-124: one pass of the inner loop; the read succeeds or fails
ReadFrame ==
    /\ pc = "read"
    /\ sample_k < Len(frame_indices)
    /\ LET each_sample_idx == frame_indices[sample_k + 1]
       IN  \E rec_frame \in BOOLEAN :
              /\ reads' = Append(reads, [sampler |-> sampler_i, idx |-> each_sample_idx,
                                         ok |-> rec_frame])
              /\ cropped_samples_list' =
                    samples_after_read(cropped_samples_list, rec_frame,
                                       samplers[sampler_i], decoded_frame(each_sample_idx))
    /\ sample_k' = sample_k + 1
    /\ UNCHANGED <<samplers, ret, argv, video, pc, sampler_i, frame_indices,
                   new_median_bg, median_bg_frames, vread_open, cancelled, calls,
                   save_confirmed, written, error>>

\* lines 127-128, once the inner loop has taken every index
MedianBackground ==
    /\ pc = "read"
    /\ sample_k = Len(frame_indices)
    /\ new_median_bg' \in median_outcomes(cropped_samples_list)
    /\ median_bg_frames' = Append(median_bg_frames, new_median_bg')
    /\ sampler_i' = sampler_i + 1
    /\ pc' = "for_sampler"
    /\ UNCHANGED <<samplers, ret, argv, video, frame_indices, sample_k,
                   cropped_samples_list, vread_open, cancelled, reads, calls,
                   save_confirmed, written, error>>

\* lines 130-131: a KeyboardInterrupt raised anywhere inside the try block
KeyboardInterrupt ==
    /\ pc \in {"for_sampler", "read"}
    /\ cancelled' = TRUE
    /\ pc' = "release"
    /\ UNCHANGED <<samplers, ret, argv, video, sampler_i, frame_indices, sample_k,
                   cropped_samples_list, new_median_bg, median_bg_frames, vread_open,
                   reads, calls, save_confirmed, written, error>>

\* line 134
Release ==
    /\ pc = "release"
    /\ vread_open' = FALSE
    /\ pc' = "show"
    /\ UNCHANGED <<samplers, ret, argv, video, sampler_i, frame_indices, sample_k,
                   cropped_samples_list, new_median_bg, median_bg_frames, cancelled,
                   reads, calls, save_confirmed, written, error>>

\* lines 140-143: median_bg_frames[0] of an empty list raises IndexError
ShowResults ==
    /\ pc = "show"
    /\ IF median_bg_frames = <<>>
       THEN pc' = "crashed" /\ error' = "IndexError line 140"
       ELSE pc' = "ask" /\ error' = error
    /\ UNCHANGED <<samplers, ret, argv, video, sampler_i, frame_indices, sample_k,
                   cropped_samples_list, new_median_bg, median_bg_frames, vread_open,
                   cancelled, reads, calls, save_confirmed, written>>

\* lines 146-151: the user's answer, or a KeyboardInterrupt at the prompt
AskSave ==
    /\ pc = "ask"
    /\ \E user_input \in {"y", "n", "KeyboardInterrupt"} :
          save_confirmed' = (user_input = "y")
    /\ pc' = "save"
    /\ UNCHANGED <<samplers, ret, argv, video, sampler_i, frame_indices, sample_k,
                   cropped_samples_list, new_median_bg, median_bg_frames, vread_open,
                   cancelled, reads, calls, written, error>>

\* lines 157-175: zip stops at the shorter of the two lists
SaveResults ==
    /\ pc = "save"
    /\ written' =
          IF save_confirmed
          THEN [j \in 1..Min(Cardinality(DOMAIN samplers), Len(median_bg_frames)) |->
                   [save_name |-> get_xy_shift(samplers[j - 1]),
                    each_bg_frame |-> median_bg_frames[j]]]
          ELSE written
    /\ pc' = "done"
    /\ UNCHANGED <<samplers, ret, argv, video, sampler_i, frame_indices, sample_k,
                   cropped_samples_list, new_median_bg, median_bg_frames, vread_open,
                   cancelled, reads, calls, save_confirmed, error>>

Next ==
    \/ BuildSamplers
    \/ DisableShift
    \/ DisableTiming
    \/ ForSampler
    \/ ReadFrame
    \/ MedianBackground
    \/ KeyboardInterrupt
    \/ Release
    \/ ShowResults
    \/ AskSave
    \/ SaveResults

Spec == Init /\ [][Next]_vars

-----------------------------------------------------------------------------
(* The median reduction on its own: MedianSpec *)

\* pixel values of the frames reduced under MedianSpec
PixelVals == {0, 1, 2, 128, 255}

\* lists of 1..MaxStack equally-shaped one-row frames, one or two pixels wide
MedianInit ==
    /\ \E n \in 1..MaxStack, w \in 1..2 :
          /\ n * w <= MaxStack
          /\ cropped_samples_list \in [1..n -> [1..1 -> [1..w -> PixelVals]]]
    /\ pc = "stack"
    /\ samplers = <<>>
    /\ ret = NoCall
    /\ argv = <<>>
    /\ video = <<>>
    /\ sampler_i = 0
    /\ frame_indices = <<>>
    /\ sample_k = 0
    /\ new_median_bg = <<>>
    /\ median_bg_frames = <<>>
    /\ vread_open = FALSE
    /\ cancelled = FALSE
    /\ reads = <<>>
    /\ calls = <<>>
    /\ save_confirmed = FALSE
    /\ written = <<>>
    /\ error = "none"

\* line 127
MedianReduce ==
    /\ pc = "stack"
    /\ new_median_bg' \in median_outcomes(cropped_samples_list)
    /\ pc' = "reduced"
    /\ UNCHANGED <<samplers, ret, argv, video, sampler_i, frame_indices, sample_k,
                   cropped_samples_list, median_bg_frames, vread_open, cancelled,
                   reads, calls, save_confirmed, written, error>>

MedianNext == MedianReduce

MedianSpec == MedianInit /\ [][MedianNext]_vars

\* the number of entries of vals that satisfy P
Count(vals, P(_)) == Cardinality({k \in 1..Len(vals) : P(vals[k])})

\* v is the median of vals to the nearest integer: the middle value of an odd count;
\* within 1/2 of the mean of the two middle values of an even count
IsRoundedMedian(v, vals) ==
    LET n == Len(vals)
        IsKth(a, k) == /\ \E i \in 1..n : vals[i] = a
                       /\ Count(vals, LAMBDA u : u < a) < k
                       /\ Count(vals, LAMBDA u : u <= a) >= k
    IN  IF n % 2 = 1
        THEN IsKth(v, (n + 1) \div 2)
        ELSE \E i \in 1..n, j \in 1..n :
                /\ IsKth(vals[i], n \div 2)
                /\ IsKth(vals[j], n \div 2 + 1)
                /\ Abs(2 * v - (vals[i] + vals[j])) <= 1

\* C9: each pixel of the reduction of a non-empty list of equally-shaped frames is the
\* median of the values at its position (middle value of an odd count, mean of the two
\* middle values rounded to the nearest integer of an even count), lies within 0..255
\* and between the least and greatest of those values; identical frames give that frame.
C9_MedianPixels ==
    pc = "reduced" =>
        LET list == cropped_samples_list
            out == new_median_bg.px
        IN  /\ new_median_bg.ndim = 2
            /\ Len(out) = Len(list[1])
            /\ \A y \in 1..Len(out) :
                  /\ Len(out[y]) = Len(list[1][y])
                  /\ \A x \in 1..Len(out[y]) :
                        LET vals == [k \in 1..Len(list) |-> list[k][y][x]]
                        IN  /\ out[y][x] \in 0..255
                            /\ \E k \in 1..Len(vals) : vals[k] <= out[y][x]
                            /\ \E k \in 1..Len(vals) : vals[k] >= out[y][x]
                            /\ IsRoundedMedian(out[y][x], vals)
            /\ (\A k \in 1..Len(list) : list[k] = list[1]) => out = list[1]

\* two frames of two pixels, (0, 2) and (255, 128), reduce to (128, 65)
C9_Witness ==
    /\ pc = "reduced"
    /\ cropped_samples_list = << <<<<0, 2>>>>, <<<<255, 128>>>> >>
    /\ new_median_bg.px = <<<<128, 65>>>>

-----------------------------------------------------------------------------
(* Properties of the script, checked under Spec *)

LoopPhases == {"for_sampler", "read"}
AfterLoop == {"release", "show", "ask", "save", "done"}

\* the reads made for sampler i, and those that succeeded
SamplerReads(i) == SelectSeq(reads, LAMBDA r : r.sampler = i)
Successes(i) == SelectSeq(reads, LAMBDA r : r.sampler = i /\ r.ok)

\* the crops of the frames read successfully for sampler i
CropsOf(i) ==
    [k \in 1..Len(Successes(i)) |-> crop(samplers[i], decoded_frame(Successes(i)[k].idx))]

\* sampler i holds the centered rectangle and samples evenly over [0, 1]
IsReference(s) ==
    /\ get_xy_shift(s) = <<0, 0>>
    /\ \A k \in 1..Len(s.norm_sample_idxs) :
          s.norm_sample_idxs[k] * Max(s.num_samples - 1, 1) = (k - 1) * PosDen(s.num_samples)

\* C5: the script builds exactly ARG_NUM_OUTPUT samplers; the two disable calls are made
\* on sampler 0, once each, before any frame is read, and on no other sampler; from then
\* on sampler 0 reports shift (0, 0) and even positions over [0, 1], and every other
\* sampler keeps the crop rectangle and positions it drew at construction.
C5_OnlyFirstIsReference ==
    [][ /\ pc = "build" => DOMAIN samplers' = 0..(argv.ARG_NUM_OUTPUT - 1)
        /\ pc # "build" =>
              /\ DOMAIN samplers' = DOMAIN samplers
              /\ \A i \in DOMAIN samplers : i # 0 => samplers'[i] = samplers[i]
        /\ pc' \in LoopPhases \cup AfterLoop =>
              /\ samplers'[0] = samplers[0] \/ pc = "disable_timing"
              /\ IsReference(samplers'[0])
              /\ calls' = <<[op |-> "disable_random_shift", self |-> 0, reads |-> 0],
                            [op |-> "disable_random_sample_timing", self |-> 0, reads |-> 0]>>
        /\ reads' # <<>> => pc' \in LoopPhases \cup AfterLoop \cup {"crashed"}
      ]_vars

\* a finished run of two samplers of three samples: the second is off-centre and
\* starts after the first frame, the first is the reference
C5_Witness ==
    /\ pc = "done"
    /\ argv.ARG_NUM_OUTPUT = 2
    /\ argv.ARG_NUM_SAMPLES = 3
    /\ Len(reads) = 6
    /\ get_xy_shift(samplers[1]) = <<1, 0>>
    /\ samplers[1].norm_sample_idxs[1] # 0
    /\ IsReference(samplers[0])

\* C6: the reads visit the samplers in list order and each sampler's frame indices in
\* order, one read per index (no retry); the frames collected for a sampler are the
\* crops of its successfully read frames; when nothing is cancelled and every sampler has
\* a successful read the run ends with one image per sampler, in sampler order, each the
\* median of that sampler's collected crops.
C6_FailedReadsSkipped ==
    LET T == video.total_frames
        done == Len(median_bg_frames)
    IN  /\ \A i \in DOMAIN samplers :
              LET r == SamplerReads(i)
                  fi == get_frame_indices(samplers[i], T)
              IN  /\ Len(r) <= Len(fi)
                  /\ \A k \in 1..Len(r) : r[k].idx = fi[k]
                  /\ (i + 1 \in DOMAIN samplers /\ SamplerReads(i + 1) # <<>>)
                        => Len(r) = Len(fi)
        /\ \A k \in 1..(Len(reads) - 1) : reads[k].sampler <= reads[k + 1].sampler
        /\ pc = "read" => cropped_samples_list = CropsOf(sampler_i)
        /\ \A j \in 1..done :
              Successes(j - 1) # <<>> =>
                  median_bg_frames[j] = [ndim |-> 2, px |-> median_image(CropsOf(j - 1))]
        /\ (/\ pc \in AfterLoop
            /\ ~cancelled
            /\ \A i \in DOMAIN samplers : Successes(i) # <<>>)
              => /\ done = Cardinality(DOMAIN samplers)
                 /\ \A i \in DOMAIN samplers :
                       Len(SamplerReads(i)) = samplers[i].num_samples

\* a finished, uncancelled run of two samplers in which the second of the reference
\* sampler's three reads (frames 0, 2, 4) failed: its image is the median of frames 0 and 4
C6_Witness ==
    /\ pc = "done"
    /\ ~cancelled
    /\ argv.ARG_NUM_OUTPUT = 2
    /\ argv.ARG_NUM_SAMPLES = 3
    /\ Len(median_bg_frames) = 2
    /\ \A i \in DOMAIN samplers : Successes(i) # <<>>
    /\ [k \in 1..3 |-> SamplerReads(0)[k].ok] = <<TRUE, FALSE, TRUE>>
    /\ [k \in 1..3 |-> SamplerReads(0)[k].idx] = <<0, 2, 4>>
    /\ median_bg_frames[1].px = <<<<(0 + 80) \div 2, (7 + 87) \div 2>>>>

\* C7: no image is appended for a sampler whose reads all failed (the median of an
\* empty collection is never taken).
C7_NoImageFromEmptyCollection ==
    \A j \in 1..Len(median_bg_frames) : Successes(j - 1) # <<>>

\* C8: once the run is cancelled the results hold exactly the images of the samplers
\* completed before the signal, the video reader is released, and the script goes on to
\* show and save them without failing, also when no image was produced; the reader is
\* released on the uncancelled path too.
C8_CancelKeepsCompleted ==
    /\ cancelled =>
          /\ Len(median_bg_frames) = sampler_i
          /\ \A i \in DOMAIN samplers :
                (SamplerReads(i) # <<>> /\ i >= sampler_i) => i = sampler_i
          /\ pc # "crashed"
    /\ pc \in {"show", "ask", "save", "done"} => ~vread_open
    /\ (pc = "crashed" /\ error = "IndexError line 140") => ~vread_open

====
